---- MODULE Spec2Model ----
(***************************************************************************)
(* Arbitrage monitor: the market data fetcher (market_data.py) and the     *)
(* FastAPI backend that polls it from a background thread (main.py).       *)
(*                                                                         *)
(* Money values are integers in units of 1e-6 (so 1.05 is 1050000); the    *)
(* percentage change is an integer in units of 1e-6 percent.  round(x, n)  *)
(* is modelled as round-half-to-even on these integers.  An optional       *)
(* value (Python None or a value) is the empty tuple or a one-tuple.       *)
(***************************************************************************)
EXTENDS Integers, Sequences, FiniteSets, TLC

\* ---------------------------------------------------------------- bounds
\* Poll cycles the clock is allowed to start.
MaxCycles == 3
\* Concurrent reader requests of the server.
NumReaders == 2
\* Ticks of the wall clock the health check reads.
MaxTicks == 1
\* main.py:27 sets MAX_HISTORY = 100; the model scales the capacity down so
\* that the ring overflows within MaxCycles publishes.
MAX_HISTORY == 2

\* ------------------------------------------------------------- settings
\* main.py:26 (and market_data.py:34): seconds between two cycles.
POLL_INTERVAL == 5

\* ------------------------------------------------------------ optionals
None == <<>>
Some(v) == <<v>>
Val(x) == x[1]

\* Python truthiness of an optional number: None and 0.0 are falsy.
TruthyNum(x) == x # None /\ Val(x) # 0

\* Python truthiness of a dict (a function): the empty dict is falsy.
TruthyDict(d) == DOMAIN d # {}

\* dict.get(key) with the default None, for a field that holds an optional.
Get(d, key) == IF key \in DOMAIN d THEN d[key] ELSE None

\* ------------------------------------------------------------- rounding
\* n / d rounded to the nearest integer, ties to the even one (d > 0).
RoundHalfEven(n, d) ==
    LET q == n \div d
        r == n % d
    IN  IF 2 * r < d THEN q
        ELSE IF 2 * r > d THEN q + 1
        ELSE IF q % 2 = 0 THEN q ELSE q + 1

\* <<q, r>> with n * 10^k = q * d + r and 0 <= r < d, for d > 0, computed
\* digit by digit so that no intermediate product leaves 32 bits.
RECURSIVE ScaledDiv(_, _, _)
ScaledDiv(n, d, k) ==
    IF k = 0 THEN <<n \div d, n % d>>
    ELSE LET p == ScaledDiv(n, d, k - 1)
         IN  <<p[1] * 10 + (p[2] * 10) \div d, (p[2] * 10) % d>>

\* n * 10^k / d rounded to the nearest integer, ties to even, d # 0.
RoundScaledDiv(n, d, k) ==
    LET p == IF d > 0 THEN ScaledDiv(n, d, k) ELSE ScaledDiv(-n, -d, k)
        m == IF d > 0 THEN d ELSE -d
    IN  IF 2 * p[2] < m THEN p[1]
        ELSE IF 2 * p[2] > m THEN p[1] + 1
        ELSE IF p[1] % 2 = 0 THEN p[1] ELSE p[1] + 1

\* round((change / previous_close) * 100, 3), in units of 1e-6 percent.
ChangePct(change, previous_close) ==
    RoundScaledDiv(change, previous_close, 5) * 1000

\* round(x, 5) and round(x, 3) of a value in units of 1e-6.
Round5(x) == RoundHalfEven(x, 10) * 10
Round3(x) == RoundHalfEven(x, 1000) * 1000

\* -------------------------------------------------------- configuration
FOREX_PAIRS ==
    <<"EUR/USD", "GBP/USD", "USD/JPY", "USD/CHF">>

ForexSymbol ==
    [n \in {"EUR/USD", "GBP/USD", "USD/JPY", "USD/CHF"} |->
        CASE n = "EUR/USD" -> "EURUSD=X"
          [] n = "GBP/USD" -> "GBPUSD=X"
          [] n = "USD/JPY" -> "USDJPY=X"
          [] n = "USD/CHF" -> "USDCHF=X"]

COMMODITIES ==
    <<"WTI Crude Oil", "Brent Crude Oil">>

CommoditySymbol ==
    [n \in {"WTI Crude Oil", "Brent Crude Oil"} |->
        CASE n = "WTI Crude Oil" -> "CL=F"
          [] n = "Brent Crude Oil" -> "BZ=F"]

Range(s) == {s[i] : i \in DOMAIN s}

Instruments == Range(FOREX_PAIRS) \cup Range(COMMODITIES)

THRESHOLDS ==
    [n \in {"Brent-WTI Spread", "EUR/USD", "GBP/USD"} |->
        CASE n = "Brent-WTI Spread" -> [min |-> -1000000, max |-> 5000000]
          [] n = "EUR/USD" -> [min |-> 1050000, max |-> 1150000]
          [] n = "GBP/USD" -> [min |-> 1200000, max |-> 1350000]]

\* ------------------------------------------------------ the quote source
\* What yfinance does for one ticker: each of the four accesses get_price
\* makes either raises or yields an optional number, unless the source
\* never answers the first lookup (get_price passes no timeout).
Answer(lp, pc) ==
    [ticker_raises |-> FALSE, fast_info_raises |-> FALSE, answers |-> TRUE,
     last_price_raises |-> FALSE, last_price |-> lp,
     previous_close_raises |-> FALSE, previous_close |-> pc]

Priced(lp, pc) == Answer(Some(lp), Some(pc))

TickerRaises == [Answer(None, None) EXCEPT !.ticker_raises = TRUE]
FastInfoRaises == [Answer(None, None) EXCEPT !.fast_info_raises = TRUE]
LastPriceRaises == [Answer(None, None) EXCEPT !.last_price_raises = TRUE]
PreviousCloseRaises(lp) ==
    [Answer(Some(lp), None) EXCEPT !.previous_close_raises = TRUE]
NeverAnswers == [Answer(None, None) EXCEPT !.answers = FALSE]

\* ------------------------------------------------------------- get_price
\* The result of a call: either the exception it lets through, or a dict,
\* or none because the call never returns.
Raised(msg) == [raised |-> TRUE, hangs |-> FALSE, error |-> msg]
Returned(d) == [raised |-> FALSE, hangs |-> FALSE, value |-> d]
Hung == [raised |-> FALSE, hangs |-> TRUE]

\* An error quote that also carries a price.
ErrorQuoteWithPrice(msg) == [price |-> Some(0), error |-> Some(msg)]

ErrorQuote(msg) == [price |-> None, error |-> Some(msg)]

\* Lines 46-60 of get_price: what runs inside the try.
GetPriceTry(b) ==
    IF b.last_price_raises THEN ErrorQuote("last_price lookup failed")
    ELSE IF b.previous_close_raises
        THEN ErrorQuote("previous_close lookup failed")
    ELSE IF b.last_price = None \/ b.previous_close = None
        THEN ErrorQuote("unsupported operand type(s) for -")
    ELSE IF Val(b.previous_close) = 0
        THEN ErrorQuote("float division by zero")
    ELSE
        LET price == Val(b.last_price)
            previous_close == Val(b.previous_close)
            change == price - previous_close
        IN  [price |-> Some(Round5(price)),
             previous_close |-> Some(Round5(previous_close)),
             change |-> Some(Round5(change)),
             change_pct |-> Some(ChangePct(change, previous_close)),
             error |-> None]

\* get_price: yf.Ticker(...) and ticker.fast_info run before the try; the
\* lookup at line 47 waits for the source.
get_price(b) ==
    IF b.ticker_raises THEN Raised("Ticker failed")
    ELSE IF b.fast_info_raises THEN Raised("fast_info failed")
    ELSE IF ~b.answers THEN Hung
    ELSE Returned(GetPriceTry(b))

\* {"symbol": symbol, **get_price(symbol)}
WithSymbol(symbol, d) ==
    [k \in DOMAIN d \cup {"symbol"} |-> IF k = "symbol" THEN symbol ELSE d[k]]

\* ------------------------------------------------------ fetch_all_prices
\* The first instrument, in fetch order, whose get_price raises or never
\* returns (0: none).
RECURSIVE FirstRaising(_, _, _)
FirstRaising(order, f, i) ==
    IF i > Len(order) THEN 0
    ELSE IF get_price(f[order[i]]).raised \/ get_price(f[order[i]]).hangs
        THEN i
    ELSE FirstRaising(order, f, i + 1)

FetchOrder == FOREX_PAIRS \o COMMODITIES

\* fetch_all_prices() at clock value ts, the source answering as f says.
fetch_all_prices(ts, f) ==
    LET i == FirstRaising(FetchOrder, f, 1)
    IN  IF i # 0
        THEN (IF get_price(f[FetchOrder[i]]).hangs THEN Hung
              ELSE Raised(get_price(f[FetchOrder[i]]).error))
        ELSE Returned(
            [timestamp |-> ts,
             forex |-> [n \in Range(FOREX_PAIRS) |->
                 WithSymbol(ForexSymbol[n], get_price(f[n]).value)],
             commodities |-> [n \in Range(COMMODITIES) |->
                 WithSymbol(CommoditySymbol[n], get_price(f[n]).value)]])

\* -------------------------------------------------------- compute_alerts
\* main.py:46 and :61, the strict band test of a threshold check.
Breach(value, t) == value < t.min \/ value > t.max

\* main.py:51 and :66, the bound a breaching value is reported against.
BreachedBound(value, t) == IF value < t.min THEN t.min ELSE t.max

\* The two direction labels swapped.
DirectionSwapped(value, t) ==
    IF value < t.min THEN "above_max" ELSE "below_min"

\* main.py:52 and :67.
Direction(value, t) == IF value < t.min THEN "below_min" ELSE "above_max"

\* main.py:43: the guard in front of an instrument's threshold check.
ForexChecked(d, name) == TruthyNum(Get(d, "price")) /\ name \in DOMAIN THRESHOLDS

ForexAlert(name, d, ts) ==
    LET t == THRESHOLDS[name]
        price == Val(d.price)
    IN  [market |-> name, type |-> "FOREX", value |-> price,
         threshold |-> BreachedBound(price, t),
         direction |-> Direction(price, t), timestamp |-> ts]

\* The loop of main.py:42-54 from the i-th pair on.
RECURSIVE ForexAlerts(_, _)
ForexAlerts(data, i) ==
    IF i > Len(FOREX_PAIRS) THEN <<>>
    ELSE
        LET name == FOREX_PAIRS[i]
            d == data.forex[name]
            here == IF ForexChecked(d, name)
                       /\ Breach(Val(d.price), THRESHOLDS[name])
                    THEN <<ForexAlert(name, d, data.timestamp)>>
                    ELSE <<>>
        IN  here \o ForexAlerts(data, i + 1)

\* main.py:58: the guard in front of the spread's threshold check.
SpreadChecked(data) ==
    /\ TruthyNum(Get(data.commodities["WTI Crude Oil"], "price"))
    /\ TruthyNum(Get(data.commodities["Brent Crude Oil"], "price"))

\* main.py:59.
Spread(data) ==
    Round3(Val(data.commodities["Brent Crude Oil"].price)
           - Val(data.commodities["WTI Crude Oil"].price))

\* main.py:56-69.
SpreadAlerts(data) ==
    IF SpreadChecked(data)
       /\ "Brent-WTI Spread" \in DOMAIN THRESHOLDS
       /\ Breach(Spread(data), THRESHOLDS["Brent-WTI Spread"])
    THEN LET t == THRESHOLDS["Brent-WTI Spread"]
         IN  <<[market |-> "Brent-WTI Spread", type |-> "OIL_SPREAD",
                value |-> Spread(data),
                threshold |-> BreachedBound(Spread(data), t),
                direction |-> Direction(Spread(data), t),
                timestamp |-> data.timestamp]>>
    ELSE <<>>

compute_alerts(data) == ForexAlerts(data, 1) \o SpreadAlerts(data)

\* ------------------------------------------------------ check_thresholds
\* market_data.py:126 and :140.
CliDirection(value, t) == IF value < t.min THEN "BELOW min" ELSE "ABOVE max"

\* market_data.py:127 and :141.
CliLimit(value, t) == IF value < t.min THEN t.min ELSE t.max

\* A band whose bounds count as breaches.
CliBreachInclusive(value, t) == value <= t.min \/ value >= t.max

\* market_data.py:125 and :139.
CliBreach(value, t) == value < t.min \/ value > t.max

\* market_data.py:122.
CliForexChecked(d, name) ==
    TruthyNum(Get(d, "price")) /\ name \in DOMAIN THRESHOLDS

\* market_data.py:136.
CliSpreadChecked(data) ==
    /\ TruthyNum(Get(data.commodities["WTI Crude Oil"], "price"))
    /\ TruthyNum(Get(data.commodities["Brent Crude Oil"], "price"))

\* market_data.py:137.
CliSpread(data) ==
    Round3(Val(data.commodities["Brent Crude Oil"].price)
           - Val(data.commodities["WTI Crude Oil"].price))

\* The keys added to current_alerts by the FOREX loop and the spread check;
\* a key f"{name}:{direction}" is the pair <<name, direction>>.
CliForexKeys(data) ==
    {<<name, CliDirection(Val(data.forex[name].price), THRESHOLDS[name])>> :
        name \in {n \in Range(FOREX_PAIRS) :
            /\ CliForexChecked(data.forex[n], n)
            /\ CliBreach(Val(data.forex[n].price), THRESHOLDS[n])}}

CliSpreadKeys(data) ==
    IF CliSpreadChecked(data)
       /\ "Brent-WTI Spread" \in DOMAIN THRESHOLDS
       /\ CliBreach(CliSpread(data), THRESHOLDS["Brent-WTI Spread"])
    THEN {<<"Brent-WTI",
            CliDirection(CliSpread(data), THRESHOLDS["Brent-WTI Spread"])>>}
    ELSE {}

CliCurrentAlerts(data) == CliForexKeys(data) \cup CliSpreadKeys(data)

\* market_data.py:130 and :144: a line is printed for a key not yet active.
CliAlertLines(current, active) == {k \in current : k \notin active}

\* market_data.py:157.
CliResolved(current, active) == active \ current

\* check_thresholds(data) with the global active_alerts = active: the keys
\* announced, the keys reported resolved, and the new global.
check_thresholds(data, active) ==
    LET current == CliCurrentAlerts(data)
    IN  [alert_lines |-> CliAlertLines(current, active),
         resolved |-> CliResolved(current, active),
         active_alerts |-> current]

\* ------------------------------------------------------------ the feeds
\* One feed says how the quote source answers each instrument in one cycle.
Inside ==
    [n \in Instruments |->
        CASE n = "EUR/USD" -> Priced(1100000, 1090000)
          [] n = "GBP/USD" -> Priced(1250000, 1260000)
          [] n = "USD/JPY" -> Priced(150000000, 149000000)
          [] n = "USD/CHF" -> Priced(900000, 900000)
          [] n = "WTI Crude Oil" -> Priced(70000000, 69000000)
          [] n = "Brent Crude Oil" -> Priced(72000000, 71000000)]

\* The feeds of the server's poll cycles.
ServerFeeds ==
    {[Inside EXCEPT !["EUR/USD"] = a] :
        a \in {Priced(1100000, 1090000), Priced(1020000, 1090000),
               LastPriceRaises, TickerRaises}}

\* The feeds the evaluators are exercised on: band edges, a price of 0.0,
\* every way a ticker fails, a spread that rounds onto its bound.
RichFeeds ==
    {[n \in Instruments |->
        CASE n = "EUR/USD" -> e
          [] n = "GBP/USD" -> g
          [] n = "USD/JPY" -> j
          [] n = "USD/CHF" -> c
          [] n = "WTI Crude Oil" -> w
          [] n = "Brent Crude Oil" -> b] :
        e \in {Priced(1020000, 1090000), Priced(1050000, 1090000),
               Priced(1100000, 1090000), Priced(1150000, 1090000),
               Priced(1200000, 1090000), Priced(0, 1090000),
               Priced(1049996, 1090000), LastPriceRaises},
        g \in {Priced(1250000, 1260000), Priced(1400000, 1260000),
               Answer(None, Some(1260000))},
        j \in {Priced(150000000, 149000000), PreviousCloseRaises(150000000)},
        c \in {Priced(900000, 900000), Priced(900000, 0)},
        w \in {Priced(70000000, 69000000), Priced(0, 69000000),
               LastPriceRaises},
        b \in {Priced(72000000, 71000000), Priced(76500000, 71000000),
               Priced(75000000, 71000000), Priced(75000400, 71000000),
               Priced(68000000, 71000000)}}

\* The feeds of the command-line monitor's cycles.
CliFeeds ==
    {[n \in Instruments |->
        CASE n = "EUR/USD" -> e
          [] n = "GBP/USD" -> g
          [] n = "WTI Crude Oil" -> w
          [] n = "Brent Crude Oil" -> b
          [] OTHER -> Inside[n]] :
        e \in {Priced(1020000, 1090000), Priced(1100000, 1090000),
               Priced(1200000, 1090000), Priced(0, 1090000),
               LastPriceRaises, FastInfoRaises},
        g \in {Priced(1250000, 1260000), Priced(1400000, 1260000)},
        w \in {Priced(70000000, 69000000), Priced(0, 69000000)},
        b \in {Priced(72000000, 71000000), Priced(76500000, 71000000),
               Priced(68000000, 71000000)}}

\* ------------------------------------------------------------- the state
VARIABLES
    lock,            \* main.py:31: "free", or held by the "poller" or a "reader"
    latest_data,     \* main.py:32
    active_alerts,   \* main.py:33
    history,         \* main.py:34
    pc,              \* where the poller thread is
    data,            \* the poller's local data
    alerts,          \* the poller's local alerts
    now,             \* the clock: the timestamp of the last cycle started
    rpc,             \* where each reader request is
    req,             \* each reader's endpoint and limit
    resp,            \* each reader's response
    published,       \* history variable: the pairs published, in order
    failures,        \* history variable: the cycles the poller has caught
    feed,            \* history variable: the source's answers, last fetch
    fetched,         \* history variable: how the last fetch ended
    cli_pc,          \* where the command-line loop is
    cli_data,        \* its local data
    cli_active_alerts, \* market_data.py:37
    cli_previous,    \* history variable: active_alerts before the last check
    cli_alert_lines, \* the keys check_thresholds announced last
    cli_resolved,    \* the keys check_thresholds reported resolved last
    wall,            \* the wall clock datetime.now() reads, main.py:114
    last_req,        \* history variable: the read that returned last, if no
                     \* publish has ended since
    slept,           \* history variable: the seconds the poller has slept
    \* The store as Python holds it: names bound to objects. An object is
    \* known by the cycle that created it; 0 is the {} and the [] of
    \* main.py:32-33.
    heap_data,       \* the contents of each dict fetch_all_prices returned
    heap_alerts,     \* the contents of each list compute_alerts returned
    heap_entry,      \* the contents of each dict appended to history
    ref_latest,      \* the object latest_data names
    ref_alerts,      \* the object active_alerts names
    ref_history,     \* the objects the deque holds, oldest first
    hpc,             \* where the poller is
    hnow,            \* its clock
    hrpc,            \* where each request is
    held,            \* the objects each request's response refers to
    got,             \* history variable: what they held when it was built
    born             \* history variable: each object as it was created

serverVars ==
    <<lock, latest_data, active_alerts, history, pc, data, alerts, now,
      rpc, req, resp, published, failures, feed, fetched>>

cliVars ==
    <<cli_pc, cli_data, cli_active_alerts, cli_previous, cli_alert_lines,
      cli_resolved>>

heapVars ==
    <<heap_data, heap_alerts, heap_entry, ref_latest, ref_alerts,
      ref_history, hpc, hnow, hrpc, held, got, born>>

auxVars == <<wall, last_req, slept, heapVars>>

vars == <<serverVars, cliVars, auxVars>>

Readers == 1..NumReaders

EmptyDict == <<>>

NoReq == [op |-> "none", limit |-> 0]
NoResp == [status |-> "none"]
NoHeld == [op |-> "none", refs |-> <<>>]

\* Requested limits: 0, fewer than, as many as and more than the ring holds.
Limits == 0..(MAX_HISTORY + 1)

Init ==
    /\ lock = "free"
    /\ latest_data = EmptyDict
    /\ active_alerts = <<>>
    /\ history = <<>>
    /\ pc = "fetching"
    /\ data = EmptyDict
    /\ alerts = <<>>
    /\ now = 0
    /\ rpc = [r \in Readers |-> "idle"]
    /\ req = [r \in Readers |-> NoReq]
    /\ resp = [r \in Readers |-> NoResp]
    /\ published = <<>>
    /\ failures = 0
    /\ feed = Inside
    /\ fetched = "none"
    /\ cli_pc = "fetching"
    /\ cli_data = EmptyDict
    /\ cli_active_alerts = {}
    /\ cli_previous = {}
    /\ cli_alert_lines = {}
    /\ cli_resolved = {}
    /\ wall = 0
    /\ last_req = NoReq
    /\ slept = 0
    /\ heap_data = [i \in {0} |-> EmptyDict]
    /\ heap_alerts = [i \in {0} |-> <<>>]
    /\ heap_entry = <<>>
    /\ ref_latest = 0
    /\ ref_alerts = 0
    /\ ref_history = <<>>
    /\ hpc = "fetching"
    /\ hnow = 0
    /\ hrpc = [r \in Readers |-> "idle"]
    /\ held = [r \in Readers |-> NoHeld]
    /\ got = [r \in Readers |-> <<>>]
    /\ born = [i \in {0} |-> [data |-> EmptyDict, alerts |-> <<>>]]

\* ------------------------------------------------------------ the poller
\* The poll loop without its except clause: an exception ends the thread.
PollerFetchUncaught(Feeds) ==
    /\ pc = "fetching"
    /\ now < MaxCycles
    /\ \E f \in Feeds :
        LET r == fetch_all_prices(now + 1, f)
        IN  /\ feed' = f
            /\ IF r.hangs
               THEN /\ pc' = "blocked"
                    /\ failures' = failures
                    /\ fetched' = "pending"
                    /\ data' = data
               ELSE IF r.raised
               THEN /\ pc' = "terminated"
                    /\ failures' = failures + 1
                    /\ fetched' = "raised"
                    /\ data' = data
               ELSE /\ pc' = "evaluating"
                    /\ failures' = failures
                    /\ fetched' = "built"
                    /\ data' = r.value
    /\ now' = now + 1
    /\ UNCHANGED <<lock, latest_data, active_alerts, history, alerts,
                   rpc, req, resp, published>>
    /\ UNCHANGED cliVars
    /\ UNCHANGED auxVars

\* A handler that resets the store when a cycle fails.
PollerFetchClearing(Feeds) ==
    /\ pc = "fetching"
    /\ now < MaxCycles
    /\ \E f \in Feeds :
        LET r == fetch_all_prices(now + 1, f)
        IN  /\ feed' = f
            /\ IF r.hangs
               THEN /\ pc' = "blocked"
                    /\ failures' = failures
                    /\ fetched' = "pending"
                    /\ data' = data
                    /\ UNCHANGED <<latest_data, active_alerts>>
               ELSE IF r.raised
               THEN /\ pc' = "sleeping"
                    /\ failures' = failures + 1
                    /\ fetched' = "raised"
                    /\ data' = data
                    /\ latest_data' = EmptyDict
                    /\ active_alerts' = <<>>
               ELSE /\ pc' = "evaluating"
                    /\ failures' = failures
                    /\ fetched' = "built"
                    /\ data' = r.value
                    /\ UNCHANGED <<latest_data, active_alerts>>
    /\ now' = now + 1
    /\ UNCHANGED <<lock, history, alerts, rpc, req, resp, published>>
    /\ UNCHANGED cliVars
    /\ UNCHANGED auxVars

\* main.py:79. An exception leaves the try for the handler at :85-86, and
\* the thread goes on to the sleep at :87. A call that never returns
\* leaves the thread inside fetch_all_prices ("blocked").
PollerFetchFrom(Feeds) ==
    /\ pc = "fetching"
    /\ now < MaxCycles
    /\ \E f \in Feeds :
        LET r == fetch_all_prices(now + 1, f)
        IN  /\ feed' = f
            /\ IF r.hangs
               THEN /\ pc' = "blocked"
                    /\ failures' = failures
                    /\ fetched' = "pending"
                    /\ data' = data
               ELSE IF r.raised
               THEN /\ pc' = "sleeping"
                    /\ failures' = failures + 1
                    /\ fetched' = "raised"
                    /\ data' = data
               ELSE /\ pc' = "evaluating"
                    /\ failures' = failures
                    /\ fetched' = "built"
                    /\ data' = r.value
    /\ now' = now + 1
    /\ UNCHANGED <<lock, latest_data, active_alerts, history, alerts,
                   rpc, req, resp, published>>
    /\ UNCHANGED cliVars
    /\ UNCHANGED auxVars

PollerFetch == PollerFetchFrom(ServerFeeds)

\* A cycle that publishes without evaluating its snapshot.
PollerEvaluateSkipped ==
    /\ pc = "evaluating"
    /\ alerts' = alerts
    /\ pc' = "acquiring"
    /\ UNCHANGED <<lock, latest_data, active_alerts, history, data, now,
                   rpc, req, resp, published, failures, feed, fetched>>
    /\ UNCHANGED cliVars
    /\ UNCHANGED auxVars

\* main.py:80.
PollerEvaluate ==
    /\ pc = "evaluating"
    /\ alerts' = compute_alerts(data)
    /\ pc' = "acquiring"
    /\ UNCHANGED <<lock, latest_data, active_alerts, history, data, now,
                   rpc, req, resp, published, failures,
                   feed, fetched>>
    /\ UNCHANGED cliVars
    /\ UNCHANGED auxVars

\* The poller entering its critical section without waiting for the lock.
PollerAcquireNoWait ==
    /\ pc = "acquiring"
    /\ lock' = "poller"
    /\ pc' = "write_data"
    /\ UNCHANGED <<latest_data, active_alerts, history, data, alerts, now,
                   rpc, req, resp, published, failures, feed, fetched>>
    /\ UNCHANGED cliVars
    /\ UNCHANGED auxVars

\* main.py:81, entering the with block.
PollerAcquire ==
    /\ pc = "acquiring"
    /\ lock = "free"
    /\ lock' = "poller"
    /\ pc' = "write_data"
    /\ UNCHANGED <<latest_data, active_alerts, history, data, alerts, now,
                   rpc, req, resp, published, failures,
                   feed, fetched>>
    /\ UNCHANGED cliVars
    /\ UNCHANGED auxVars

\* main.py:82.
PollerWriteData ==
    /\ pc = "write_data"
    /\ latest_data' = data
    /\ pc' = "write_alerts"
    /\ UNCHANGED <<lock, active_alerts, history, data, alerts, now,
                   rpc, req, resp, published, failures,
                   feed, fetched>>
    /\ UNCHANGED cliVars
    /\ UNCHANGED auxVars

\* A publish that leaves the alert list as it was.
PollerWriteAlertsSkipped ==
    /\ pc = "write_alerts"
    /\ active_alerts' = active_alerts
    /\ pc' = "append"
    /\ UNCHANGED <<lock, latest_data, history, data, alerts, now,
                   rpc, req, resp, published, failures,
                   feed, fetched>>
    /\ UNCHANGED cliVars
    /\ UNCHANGED auxVars

\* main.py:83.
PollerWriteAlerts ==
    /\ pc = "write_alerts"
    /\ active_alerts' = alerts
    /\ pc' = "append"
    /\ UNCHANGED <<lock, latest_data, history, data, alerts, now,
                   rpc, req, resp, published, failures,
                   feed, fetched>>
    /\ UNCHANGED cliVars
    /\ UNCHANGED auxVars

\* {**data, "alerts": alerts}
HistoryEntry(d, a) ==
    [k \in DOMAIN d \cup {"alerts"} |-> IF k = "alerts" THEN a ELSE d[k]]

\* A deque without maxlen.
DequeAppendUnbounded(h, x) == Append(h, x)

\* deque(maxlen=MAX_HISTORY).append
DequeAppend(h, x) ==
    IF MAX_HISTORY = 0 THEN h
    ELSE IF Len(h) >= MAX_HISTORY THEN Append(Tail(h), x)
    ELSE Append(h, x)

\* main.py:84.
PollerAppend ==
    /\ pc = "append"
    /\ history' = DequeAppend(history, HistoryEntry(data, alerts))
    /\ pc' = "release"
    /\ UNCHANGED <<lock, latest_data, active_alerts, data, alerts, now,
                   rpc, req, resp, published, failures,
                   feed, fetched>>
    /\ UNCHANGED cliVars
    /\ UNCHANGED auxVars

\* A with block that is left without releasing the lock.
PollerReleaseKeepingLock ==
    /\ pc = "release"
    /\ lock' = lock
    /\ published' = Append(published, [data |-> data, alerts |-> alerts])
    /\ pc' = "sleeping"
    /\ last_req' = NoReq
    /\ UNCHANGED <<latest_data, active_alerts, history, data, alerts, now,
                   rpc, req, resp, failures, feed, fetched, wall, slept, heapVars>>
    /\ UNCHANGED cliVars

\* Leaving the with block of main.py:81-84: the publish is complete.
PollerRelease ==
    /\ pc = "release"
    /\ lock' = "free"
    /\ published' = Append(published, [data |-> data, alerts |-> alerts])
    /\ pc' = "sleeping"
    /\ last_req' = NoReq
    /\ UNCHANGED <<latest_data, active_alerts, history, data, alerts, now,
                   rpc, req, resp, failures, feed, fetched, wall, slept, heapVars>>
    /\ UNCHANGED cliVars

\* main.py:87 and back to the head of the loop at :77.
PollerSleep ==
    /\ pc = "sleeping"
    /\ slept' = slept + POLL_INTERVAL
    /\ pc' = "fetching"
    /\ UNCHANGED <<lock, latest_data, active_alerts, history, data, alerts,
                   now, rpc, req, resp, published, failures,
                   feed, fetched, wall, last_req, heapVars>>
    /\ UNCHANGED cliVars

\* ----------------------------------------------------------- the readers
\* seq[start:] of Python, start any integer.
PySliceFrom(seq, start) ==
    LET n == Len(seq)
        from == IF start < 0
                THEN (IF n + start < 0 THEN 0 ELSE n + start)
                ELSE (IF start > n THEN n ELSE start)
    IN  SubSeq(seq, from + 1, n)

\* /prices without the not-yet-available branch.
PricesResponseNoLoading ==
    [status |-> "ok", data |-> Some(latest_data), seen |-> Len(published)]

\* main.py:120-122. seen is a history variable: the publishes completed
\* when the read is made.
PricesResponse ==
    IF ~TruthyDict(latest_data)
    THEN [status |-> "loading", data |-> None, seen |-> Len(published)]
    ELSE [status |-> "ok", data |-> Some(latest_data),
          seen |-> Len(published)]

\* main.py:128-132.
AlertsResponse ==
    [status |-> "ok", count |-> Len(active_alerts),
     alerts |-> active_alerts, seen |-> Len(published)]

\* main.py:138-139. stored is a history variable: the ring as it was read.
HistoryResponse(limit) ==
    LET recent == PySliceFrom(history, -limit)
    IN  [status |-> "ok", count |-> Len(recent), snapshots |-> recent,
         limit |-> limit, stored |-> history]

\* main.py:119, :127, :137: a request enters its with block.
ReaderAcquire(r) ==
    /\ rpc[r] = "idle"
    /\ lock = "free"
    /\ \E op \in {"prices", "alerts", "history"} :
       \E limit \in (IF op = "history" THEN Limits ELSE {0}) :
           req' = [req EXCEPT ![r] = [op |-> op, limit |-> limit]]
    /\ lock' = "reader"
    /\ rpc' = [rpc EXCEPT ![r] = "locked"]
    /\ UNCHANGED <<latest_data, active_alerts, history, pc, data, alerts,
                   now, resp, published, failures,
                   feed, fetched>>
    /\ UNCHANGED cliVars
    /\ UNCHANGED auxVars

\* The same entry in two steps, so that waiting for the lock is a state:
\* the request (a /prices, or a /history asking for one entry) reaches its
\* with statement ...
ReaderRequest(r) ==
    /\ rpc[r] = "idle"
    /\ \E op \in {"prices", "history"} :
       \E limit \in (IF op = "history" THEN {1} ELSE {0}) :
           req' = [req EXCEPT ![r] = [op |-> op, limit |-> limit]]
    /\ rpc' = [rpc EXCEPT ![r] = "waiting"]
    /\ UNCHANGED <<lock, latest_data, active_alerts, history, pc, data,
                   alerts, now, resp, published, failures, feed, fetched>>
    /\ UNCHANGED cliVars
    /\ UNCHANGED auxVars

\* ... and is given the lock once it is free.
ReaderEnter(r) ==
    /\ rpc[r] = "waiting"
    /\ lock = "free"
    /\ lock' = "reader"
    /\ rpc' = [rpc EXCEPT ![r] = "locked"]
    /\ UNCHANGED <<latest_data, active_alerts, history, pc, data, alerts,
                   now, req, resp, published, failures, feed, fetched>>
    /\ UNCHANGED cliVars
    /\ UNCHANGED auxVars

\* A /history that hands its entries out by taking them off the ring.
ReaderReadDraining(r) ==
    /\ rpc[r] = "locked"
    /\ resp' = [resp EXCEPT ![r] =
           CASE req[r].op = "prices" -> PricesResponse
             [] req[r].op = "alerts" -> AlertsResponse
             [] req[r].op = "history" -> HistoryResponse(req[r].limit)]
    /\ history' = IF req[r].op = "history"
                  THEN SubSeq(history, 1,
                              Len(history)
                                - Len(PySliceFrom(history, -req[r].limit)))
                  ELSE history
    /\ rpc' = [rpc EXCEPT ![r] = "computed"]
    /\ UNCHANGED <<lock, latest_data, active_alerts, pc, data,
                   alerts, now, req, published, failures,
                   feed, fetched>>
    /\ UNCHANGED cliVars
    /\ UNCHANGED auxVars

\* The body of the with block: the response (for /history, the local
\* recent it is built from) is computed with the lock held.
ReaderRead(r) ==
    /\ rpc[r] = "locked"
    /\ resp' = [resp EXCEPT ![r] =
           CASE req[r].op = "prices" -> PricesResponse
             [] req[r].op = "alerts" -> AlertsResponse
             [] req[r].op = "history" -> HistoryResponse(req[r].limit)]
    /\ rpc' = [rpc EXCEPT ![r] = "computed"]
    /\ UNCHANGED <<lock, latest_data, active_alerts, history, pc, data,
                   alerts, now, req, published, failures,
                   feed, fetched>>
    /\ UNCHANGED cliVars
    /\ UNCHANGED auxVars

\* Leaving the with block; the handler returns and the request is over.
ReaderReturn(r) ==
    /\ rpc[r] = "computed"
    /\ lock' = "free"
    /\ rpc' = [rpc EXCEPT ![r] = "idle"]
    /\ req' = [req EXCEPT ![r] = NoReq]
    /\ resp' = [resp EXCEPT ![r] = NoResp]
    /\ UNCHANGED <<latest_data, active_alerts, history, pc, data, alerts,
                   now, published, failures,
                   feed, fetched, wall, slept, heapVars>>
    /\ UNCHANGED cliVars

ReaderRelease(r) ==
    /\ ReaderReturn(r)
    /\ UNCHANGED last_req

\* The same step, remembering which read it was.
ReaderReleaseLogged(r) ==
    /\ ReaderReturn(r)
    /\ last_req' = req[r]

\* main.py:114.
HealthResponse == [status |-> "ok", timestamp |-> wall]

\* main.py:112-114: no lock is taken.
Health(r) ==
    /\ rpc[r] = "idle"
    /\ req' = [req EXCEPT ![r] = [op |-> "health", limit |-> 0]]
    /\ resp' = [resp EXCEPT ![r] = HealthResponse]
    /\ rpc' = [rpc EXCEPT ![r] = "health"]
    /\ UNCHANGED <<lock, latest_data, active_alerts, history, pc, data,
                   alerts, now, published, failures,
                   feed, fetched>>
    /\ UNCHANGED cliVars
    /\ UNCHANGED auxVars

\* The health handler returns.
HealthDone(r) ==
    /\ rpc[r] = "health"
    /\ rpc' = [rpc EXCEPT ![r] = "idle"]
    /\ req' = [req EXCEPT ![r] = NoReq]
    /\ resp' = [resp EXCEPT ![r] = NoResp]
    /\ UNCHANGED <<lock, latest_data, active_alerts, history, pc, data,
                   alerts, now, published, failures,
                   feed, fetched>>
    /\ UNCHANGED cliVars
    /\ UNCHANGED auxVars

\* Time passes between two calls of datetime.now() (main.py:114).
Tick ==
    /\ wall < MaxTicks
    /\ wall' = wall + 1
    /\ UNCHANGED <<last_req, slept, heapVars>>
    /\ UNCHANGED serverVars
    /\ UNCHANGED cliVars

\* ------------------------------------------- the command-line monitor
\* market_data.py:170. Only KeyboardInterrupt is caught (:174): any other
\* exception ends the loop.
CliFetch ==
    /\ cli_pc = "fetching"
    /\ \E f \in CliFeeds :
        LET r == fetch_all_prices(0, f)
        IN  IF r.hangs
            THEN cli_pc' = "blocked" /\ cli_data' = cli_data
            ELSE IF r.raised
            THEN cli_pc' = "crashed" /\ cli_data' = cli_data
            ELSE cli_pc' = "checking" /\ cli_data' = r.value
    /\ UNCHANGED <<cli_active_alerts, cli_previous, cli_alert_lines,
                   cli_resolved>>
    /\ UNCHANGED serverVars
    /\ UNCHANGED auxVars

\* market_data.py:170, the source answering the monitor as it answered the
\* server: the monitor's snapshot holds the quotes of the server's.
CliFetchSame ==
    /\ cli_pc = "fetching"
    /\ pc = "acquiring"
    /\ cli_data' = data
    /\ cli_pc' = "checking"
    /\ UNCHANGED <<cli_active_alerts, cli_previous, cli_alert_lines,
                   cli_resolved>>
    /\ UNCHANGED serverVars
    /\ UNCHANGED auxVars

\* market_data.py:172.
CliCheck ==
    /\ cli_pc = "checking"
    /\ LET r == check_thresholds(cli_data, cli_active_alerts)
       IN  /\ cli_alert_lines' = r.alert_lines
           /\ cli_resolved' = r.resolved
           /\ cli_active_alerts' = r.active_alerts
    /\ cli_previous' = cli_active_alerts
    /\ cli_pc' = "sleeping"
    /\ UNCHANGED cli_data
    /\ UNCHANGED serverVars
    /\ UNCHANGED auxVars

\* market_data.py:173.
CliSleep ==
    /\ cli_pc = "sleeping"
    /\ cli_pc' = "fetching"
    /\ UNCHANGED <<cli_data, cli_active_alerts, cli_previous,
                   cli_alert_lines, cli_resolved>>
    /\ UNCHANGED serverVars
    /\ UNCHANGED auxVars

\* ------------------------------------------------- the store as objects
\* The same poller and endpoints with Python's names and objects told
\* apart, so that changing an object in place and binding a name to a new
\* object are different things. The poller's builds never fail here.
HeapFeeds ==
    {[Inside EXCEPT !["EUR/USD"] = b] :
        b \in {Priced(1100000, 1090000), Priced(1020000, 1090000)}}

serverAndCli == <<serverVars, cliVars, wall, last_req, slept>>

\* heap with a new object at the next address.
Allocate(heap, contents) ==
    [i \in DOMAIN heap \cup {hnow + 1} |->
        IF i = hnow + 1 THEN contents ELSE heap[i]]

\* main.py:79-80: fetch_all_prices() returns a new dict and compute_alerts
\* a new list.
HeapBuild ==
    /\ hpc = "fetching"
    /\ hnow < MaxCycles
    /\ \E f \in HeapFeeds :
        LET d == fetch_all_prices(hnow + 1, f).value
            a == compute_alerts(d)
        IN  /\ heap_data' = Allocate(heap_data, d)
            /\ heap_alerts' = Allocate(heap_alerts, a)
            /\ born' = Allocate(born, [data |-> d, alerts |-> a])
    /\ hnow' = hnow + 1
    /\ hpc' = "publishing"
    /\ UNCHANGED <<heap_entry, ref_latest, ref_alerts, ref_history, hrpc,
                   held, got>>
    /\ UNCHANGED serverAndCli

\* A publish that refreshes the objects the names are bound to:
\* latest_data.clear(); latest_data.update(data); active_alerts[:] = alerts.
HeapPublishInPlace ==
    /\ hpc = "publishing"
    /\ heap_data' = [heap_data EXCEPT ![ref_latest] = heap_data[hnow]]
    /\ heap_alerts' = [heap_alerts EXCEPT ![ref_alerts] = heap_alerts[hnow]]
    /\ heap_entry' = Append(heap_entry,
                            [snap |-> heap_data[hnow], alerts_ref |-> hnow])
    /\ ref_history' = DequeAppend(ref_history, hnow)
    /\ hpc' = "sleeping"
    /\ UNCHANGED <<ref_latest, ref_alerts, hnow, hrpc, held, got, born>>
    /\ UNCHANGED serverAndCli

\* main.py:81-84, the whole with block: the two names are bound to the
\* objects just built, and a new dict {**data, "alerts": alerts}, which
\* refers to the list alerts, is appended.
HeapPublish ==
    /\ hpc = "publishing"
    /\ ref_latest' = hnow
    /\ ref_alerts' = hnow
    /\ heap_entry' = Append(heap_entry,
                            [snap |-> heap_data[hnow], alerts_ref |-> hnow])
    /\ ref_history' = DequeAppend(ref_history, hnow)
    /\ hpc' = "sleeping"
    /\ UNCHANGED <<heap_data, heap_alerts, hnow, hrpc, held, got, born>>
    /\ UNCHANGED serverAndCli

\* main.py:87.
HeapSleep ==
    /\ hpc = "sleeping"
    /\ hpc' = "fetching"
    /\ UNCHANGED <<heap_data, heap_alerts, heap_entry, ref_latest,
                   ref_alerts, ref_history, hnow, hrpc, held, got, born>>
    /\ UNCHANGED serverAndCli

\* The history entry at an address, as a reader of it sees it now.
EntryAt(id) ==
    HistoryEntry(heap_entry[id].snap, heap_alerts[heap_entry[id].alerts_ref])

\* What the objects a response refers to hold now.
Contents(h) ==
    [i \in DOMAIN h.refs |->
        CASE h.op = "prices" -> heap_data[h.refs[i]]
          [] h.op = "alerts" -> heap_alerts[h.refs[i]]
          [] h.op = "history" -> EntryAt(h.refs[i])]

\* main.py:117-139, one whole with block: the response refers to the
\* object latest_data names (none while it is empty), to the one
\* active_alerts names, or, in a new list, to the entries of the deque.
HeldBy(op) ==
    CASE op = "prices" ->
            [op |-> op,
             refs |-> IF ~TruthyDict(heap_data[ref_latest]) THEN <<>>
                      ELSE <<ref_latest>>]
      [] op = "alerts" -> [op |-> op, refs |-> <<ref_alerts>>]
      [] op = "history" ->
            [op |-> op, refs |-> PySliceFrom(ref_history, -MAX_HISTORY)]

HeapRead(r) ==
    /\ hrpc[r] = "idle"
    /\ \E op \in {"prices", "alerts", "history"} :
        /\ held' = [held EXCEPT ![r] = HeldBy(op)]
        /\ got' = [got EXCEPT ![r] = Contents(HeldBy(op))]
    /\ hrpc' = [hrpc EXCEPT ![r] = "using"]
    /\ UNCHANGED <<heap_data, heap_alerts, heap_entry, ref_latest,
                   ref_alerts, ref_history, hpc, hnow, born>>
    /\ UNCHANGED serverAndCli

\* The response has been serialised and is dropped.
HeapDone(r) ==
    /\ hrpc[r] = "using"
    /\ hrpc' = [hrpc EXCEPT ![r] = "idle"]
    /\ held' = [held EXCEPT ![r] = NoHeld]
    /\ got' = [got EXCEPT ![r] = <<>>]
    /\ UNCHANGED <<heap_data, heap_alerts, heap_entry, ref_latest,
                   ref_alerts, ref_history, hpc, hnow, born>>
    /\ UNCHANGED serverAndCli

\* ---------------------------------------------------- the specifications
\* The server: the poller thread and the reader requests, interleaved.
Next ==
    \/ PollerFetch
    \/ PollerEvaluate
    \/ PollerAcquire
    \/ PollerWriteData
    \/ PollerWriteAlerts
    \/ PollerAppend
    \/ PollerRelease
    \/ PollerSleep
    \/ \E r \in Readers : ReaderAcquire(r)
    \/ \E r \in Readers : ReaderRead(r)
    \/ \E r \in Readers : ReaderRelease(r)
    \/ \E r \in Readers : Health(r)
    \/ \E r \in Readers : HealthDone(r)

Spec == Init /\ [][Next]_vars

\* The snapshot builder and the server's evaluator on the rich feeds.
PollerFetchRich == PollerFetchFrom(RichFeeds)

NextEval ==
    \/ PollerFetchRich
    \/ PollerEvaluate

SpecEval == Init /\ [][NextEval]_vars

\* The command-line monitor's loop.
NextCli ==
    \/ CliFetch
    \/ CliCheck
    \/ CliSleep

SpecCli == Init /\ [][NextCli]_vars

\* The server with a source that may never answer.
HangFeeds ==
    {[Inside EXCEPT !["EUR/USD"] = b] :
        b \in {Priced(1020000, 1090000), TickerRaises, NeverAnswers}}

PollerFetchHang == PollerFetchFrom(HangFeeds)

PollerNextHang ==
    \/ PollerFetchHang
    \/ PollerEvaluate
    \/ PollerAcquire
    \/ PollerWriteData
    \/ PollerWriteAlerts
    \/ PollerAppend
    \/ PollerRelease
    \/ PollerSleep

NextHang ==
    \/ PollerNextHang
    \/ \E r \in Readers : ReaderRequest(r)
    \/ \E r \in Readers : ReaderEnter(r)
    \/ \E r \in Readers : ReaderRead(r)
    \/ \E r \in Readers : ReaderRelease(r)
    \/ \E r \in Readers : Health(r)
    \/ \E r \in Readers : HealthDone(r)

SpecHang == Init /\ [][NextHang]_vars

\* The same under fair scheduling: a thread that can take a step takes it,
\* and a waiting request that finds the lock free again and again gets it.
SpecFair ==
    /\ Init
    /\ [][NextHang]_vars
    /\ WF_vars(PollerNextHang)
    /\ \A r \in Readers :
        /\ SF_vars(ReaderEnter(r))
        /\ WF_vars(ReaderRead(r) \/ ReaderRelease(r))
        /\ WF_vars(HealthDone(r))

\* The two evaluators on the same snapshot, over the rich feeds.
NextBoth ==
    \/ PollerFetchRich
    \/ PollerEvaluate
    \/ CliFetchSame
    \/ CliCheck

SpecBoth == Init /\ [][NextBoth]_vars

\* The server's store as objects.
NextHeap ==
    \/ HeapBuild
    \/ HeapPublish
    \/ HeapSleep
    \/ \E r \in Readers : HeapRead(r)
    \/ \E r \in Readers : HeapDone(r)

SpecHeap == Init /\ [][NextHeap]_vars

\* The server with the wall clock running and the reads remembered; the
\* source answers every fetch, with EUR/USD below its band.
ReadFeeds ==
    {[Inside EXCEPT !["EUR/USD"] = b] : b \in {Priced(1020000, 1090000)}}

PollerFetchReads == PollerFetchFrom(ReadFeeds)

NextReads ==
    \/ PollerFetchReads
    \/ PollerEvaluate
    \/ PollerAcquire
    \/ PollerWriteData
    \/ PollerWriteAlerts
    \/ PollerAppend
    \/ PollerRelease
    \/ PollerSleep
    \/ \E r \in Readers : ReaderAcquire(r)
    \/ \E r \in Readers : ReaderRead(r)
    \/ \E r \in Readers : ReaderReleaseLogged(r)
    \/ \E r \in Readers : Health(r)
    \/ \E r \in Readers : HealthDone(r)
    \/ Tick

SpecReads == Init /\ [][NextReads]_vars

\* ------------------------------------------------------------ the claims
Last(seq) == seq[Len(seq)]

\* The last k elements of seq (all of it when it has fewer).
LastN(seq, k) ==
    IF k >= Len(seq) THEN seq ELSE SubSeq(seq, Len(seq) - k + 1, Len(seq))

Min(a, b) == IF a <= b THEN a ELSE b

HoldsLock(r) == rpc[r] \in {"locked", "computed"}

\* C1: whenever a reader holds the lock, the stored latest snapshot and the
\* stored alert list are what one and the same publish wrote (or both are
\* still the initial empty values): a reader never sees a torn update.
C1_NoTornRead ==
    \A r \in Readers :
        HoldsLock(r) =>
            \/ /\ published = <<>>
               /\ latest_data = EmptyDict
               /\ active_alerts = <<>>
            \/ \E i \in DOMAIN published :
                /\ latest_data = published[i].data
                /\ active_alerts = published[i].alerts

\* A reader holds the lock after two publishes whose alert lists differ.
C1_Witness ==
    /\ \E r \in Readers : HoldsLock(r)
    /\ Len(published) >= 2
    /\ published[1].alerts # published[2].alerts
    /\ latest_data = published[2].data

\* C2: /prices answers "loading" with no data before any publish; after
\* N >= 1 publishes it answers ok with exactly the data of the Nth publish.
C2_ReadLatest ==
    \A r \in Readers :
        (rpc[r] = "computed" /\ req[r].op = "prices") =>
            IF resp[r].seen = 0
            THEN resp[r].status = "loading" /\ resp[r].data = None
            ELSE /\ resp[r].status = "ok"
                 /\ resp[r].data = Some(published[resp[r].seen].data)

\* /prices has answered both before the first publish is complete and after
\* the second.
C2_Witness ==
    \E r \in Readers :
        /\ rpc[r] = "computed"
        /\ req[r].op = "prices"
        /\ resp[r].seen = 2
        /\ resp[r].status = "ok"

\* The pairs whose history entry has been appended: the completed publishes
\* and the one the poller is about to complete.
Appended ==
    IF pc = "release"
    THEN Append(published, [data |-> data, alerts |-> alerts])
    ELSE published

\* C3: the history never holds more than MAX_HISTORY entries and is always
\* the most recent min(publishes, MAX_HISTORY) published entries, oldest
\* first: on overflow the oldest is evicted and the new one is the newest.
C3_BoundedFifoHistory ==
    /\ Len(history) <= MAX_HISTORY
    /\ Len(history) = Min(Len(Appended), MAX_HISTORY)
    /\ \A i \in DOMAIN history :
        LET e == LastN(Appended, MAX_HISTORY)[i]
        IN  history[i] = HistoryEntry(e.data, e.alerts)

\* More publishes than the ring holds: the first entry has been evicted.
C3_Witness ==
    /\ Len(published) = MAX_HISTORY + 1
    /\ Len(history) = MAX_HISTORY
    /\ history[1].timestamp = published[2].data.timestamp
    /\ Last(history).timestamp = Last(published).data.timestamp

\* C4: for every limit >= 0, /history returns exactly the most recent
\* min(limit, stored) entries, newest last, and count is their number.
C4_HistoryLimit ==
    \A r \in Readers :
        (rpc[r] = "computed" /\ req[r].op = "history" /\ resp[r].limit >= 0) =>
            /\ resp[r].snapshots = LastN(resp[r].stored, resp[r].limit)
            /\ resp[r].count = Len(resp[r].snapshots)
            /\ resp[r].count = Min(resp[r].limit, Len(resp[r].stored))

\* What the code does for limit = 0: list(history)[-0:] is the whole ring.
C4_ZeroLimitReturnsAll ==
    \A r \in Readers :
        (rpc[r] = "computed" /\ req[r].op = "history" /\ resp[r].limit = 0) =>
            resp[r].snapshots = resp[r].stored

\* The alerts compute_alerts listed for one subject.
AlertsOf(subject) == SelectSeq(alerts, LAMBDA a : a.market = subject)

\* The outcome the claim fixes for one threshold check of the server.
BandOutcome(subject, value, t) ==
    LET as == AlertsOf(subject)
    IN  /\ value < t.min =>
            /\ Len(as) = 1
            /\ as[1].direction = "below_min"
            /\ as[1].threshold = t.min
            /\ as[1].value = value
        /\ value > t.max =>
            /\ Len(as) = 1
            /\ as[1].direction = "above_max"
            /\ as[1].threshold = t.max
            /\ as[1].value = value
        /\ (t.min <= value /\ value <= t.max) => as = <<>>

\* The same for one threshold check of the command-line evaluator.
CliBandOutcome(subject, value, t, keys) ==
    LET ks == {k \in keys : k[1] = subject}
    IN  /\ value < t.min => ks = {<<subject, "BELOW min">>}
        /\ value > t.max => ks = {<<subject, "ABOVE max">>}
        /\ (t.min <= value /\ value <= t.max) => ks = {}

\* C5: every threshold check that is made (of a price, or of the spread)
\* yields exactly one alert, below_min against min, when the value is under
\* min, exactly one, above_max against max, when it is over max, and none
\* when min <= value <= max; no subject has two alerts in one cycle.
C5_ThresholdCheck ==
    pc = "acquiring" =>
        /\ \A n \in Range(FOREX_PAIRS) :
            ForexChecked(data.forex[n], n) =>
                /\ THRESHOLDS[n].min < THRESHOLDS[n].max
                /\ BandOutcome(n, Val(data.forex[n].price), THRESHOLDS[n])
                /\ CliBandOutcome(n, Val(data.forex[n].price), THRESHOLDS[n],
                                  CliCurrentAlerts(data))
        /\ SpreadChecked(data) =>
                /\ BandOutcome("Brent-WTI Spread", Spread(data),
                               THRESHOLDS["Brent-WTI Spread"])
                /\ CliBandOutcome("Brent-WTI", CliSpread(data),
                                  THRESHOLDS["Brent-WTI Spread"],
                                  CliCurrentAlerts(data))
        /\ \A i, j \in DOMAIN alerts :
            alerts[i].market = alerts[j].market => i = j
        /\ \A k1, k2 \in CliCurrentAlerts(data) : k1[1] = k2[1] => k1 = k2

\* EUR/USD exactly on its min (no alert), GBP/USD over its max, the spread
\* under its min: all three cases in one evaluated snapshot.
C5_Witness ==
    /\ pc = "acquiring"
    /\ data.forex["EUR/USD"].price = Some(THRESHOLDS["EUR/USD"].min)
    /\ AlertsOf("EUR/USD") = <<>>
    /\ Len(AlertsOf("GBP/USD")) = 1
    /\ AlertsOf("GBP/USD")[1].direction = "above_max"
    /\ Len(AlertsOf("Brent-WTI Spread")) = 1
    /\ AlertsOf("Brent-WTI Spread")[1].direction = "below_min"

\* C6: a failed cycle never ends the poll loop: the exception is caught and
\* the thread is at the sleep, from where the step back to fetching can be
\* taken; and whatever failed before, a cycle that built its snapshot and
\* reached the sleep has published that snapshot.
C6_LoopSurvivesFailure ==
    /\ pc \in {"fetching", "evaluating", "acquiring", "write_data",
               "write_alerts", "append", "release", "sleeping"}
    /\ fetched = "raised" => pc \in {"sleeping", "fetching"}
    /\ pc = "sleeping" => ENABLED PollerSleep
    /\ (pc = "sleeping" /\ fetched = "built") =>
        /\ published # <<>>
        /\ Last(published).data = data
        /\ data.timestamp = now
        /\ latest_data = data

\* A cycle failed and a later cycle has been published.
C6_Witness ==
    /\ failures >= 1
    /\ pc = "sleeping"
    /\ fetched = "built"
    /\ published # <<>>
    /\ Last(published).data.timestamp = now
    /\ now >= 2
    /\ Len(published) = 1

\* The source failed for this instrument at some step of get_price.
SourceFails(b) ==
    \/ b.ticker_raises
    \/ b.fast_info_raises
    \/ b.last_price_raises
    \/ b.previous_close_raises
    \/ b.last_price = None
    \/ b.previous_close = None
    \/ b.previous_close = Some(0)

QuoteOf(d, n) ==
    IF n \in DOMAIN d.forex THEN d.forex[n] ELSE d.commodities[n]

ErrorOnly(q) == Get(q, "price") = None /\ Get(q, "error") # None
PricedOnly(q) == Get(q, "price") # None /\ Get(q, "error") = None

\* C7: whatever step of fetching one instrument fails, the cycle is not
\* aborted: the snapshot is built with an error-only Quote for exactly the
\* failed instruments and priced Quotes for the others, and is published.
C7_FetchFailureIsLocal ==
    fetched # "none" =>
        /\ fetched = "built"
        /\ data.timestamp = now
        /\ \A n \in Instruments :
            IF SourceFails(feed[n]) THEN ErrorOnly(QuoteOf(data, n))
            ELSE PricedOnly(QuoteOf(data, n))
        /\ pc \in {"sleeping", "fetching"} => Last(published).data = data

\* One instrument's fetch failed inside the try of get_price: the snapshot
\* holds its error-only Quote beside five priced ones and is published.
C7_CaughtFailureIsLocal ==
    (fetched = "built" /\ pc \in {"sleeping", "fetching"}) =>
        /\ Last(published).data = data
        /\ \A n \in Instruments :
            IF SourceFails(feed[n]) THEN ErrorOnly(QuoteOf(data, n))
            ELSE PricedOnly(QuoteOf(data, n))

\* The keys (subject, direction) breached by a snapshot, by the claim's
\* words: a present price, whatever its value, strictly outside the band of
\* its threshold; the spread of two present prices outside the spread band.
PresentPrice(q) == Get(q, "price") # None

BreachedKeys(d, below, above, spreadName) ==
    {<<n, IF Val(d.forex[n].price) < THRESHOLDS[n].min THEN below ELSE above>> :
        n \in {m \in Range(FOREX_PAIRS) \cap DOMAIN THRESHOLDS :
            /\ PresentPrice(d.forex[m])
            /\ \/ Val(d.forex[m].price) < THRESHOLDS[m].min
               \/ Val(d.forex[m].price) > THRESHOLDS[m].max}}
    \cup
    (IF /\ PresentPrice(d.commodities["WTI Crude Oil"])
        /\ PresentPrice(d.commodities["Brent Crude Oil"])
     THEN LET spread == Round3(Val(d.commodities["Brent Crude Oil"].price)
                               - Val(d.commodities["WTI Crude Oil"].price))
              t == THRESHOLDS["Brent-WTI Spread"]
          IN  IF spread < t.min THEN {<<spreadName, below>>}
              ELSE IF spread > t.max THEN {<<spreadName, above>>}
              ELSE {}
     ELSE {})

CliBreachedKeys(d) == BreachedKeys(d, "BELOW min", "ABOVE max", "Brent-WTI")

\* C8: after each check of the command-line monitor, the keys announced are
\* the keys breached in this cycle that were not active in the previous one,
\* the keys reported resolved are the previously active keys not breached
\* in this cycle, and the carried set is the set of keys breached.
C8_Transitions ==
    cli_pc = "sleeping" =>
        /\ cli_alert_lines = CliBreachedKeys(cli_data) \ cli_previous
        /\ cli_resolved = cli_previous \ CliBreachedKeys(cli_data)
        /\ cli_active_alerts = CliBreachedKeys(cli_data)

\* The same over the cycles in which no instrument is quoted at 0.0.
C8_TransitionsNonZero ==
    (cli_pc = "sleeping"
     /\ \A n \in Instruments : Get(QuoteOf(cli_data, n), "price") # Some(0)) =>
        /\ cli_alert_lines = CliBreachedKeys(cli_data) \ cli_previous
        /\ cli_resolved = cli_previous \ CliBreachedKeys(cli_data)
        /\ cli_active_alerts = CliBreachedKeys(cli_data)

\* C9: every Quote of a built snapshot has exactly one of price and error.
C9_PriceXorError ==
    fetched = "built" =>
        \A n \in Instruments :
            LET q == QuoteOf(data, n)
            IN  /\ {"price", "error"} \subseteq DOMAIN q
                /\ (q.price # None) # (q.error # None)

\* A snapshot with an errored Quote beside priced ones.
C9_Witness ==
    /\ fetched = "built"
    /\ ErrorOnly(QuoteOf(data, "EUR/USD"))
    /\ ErrorOnly(QuoteOf(data, "USD/CHF"))
    /\ PricedOnly(QuoteOf(data, "GBP/USD"))
    /\ QuoteOf(data, "WTI Crude Oil").price = Some(0)

\* The breaches of a snapshot as the alerts the claim expects for them.
ExpectedAlerts(d) ==
    {[market |-> n, type |-> "FOREX", value |-> Val(d.forex[n].price),
      threshold |-> IF Val(d.forex[n].price) < THRESHOLDS[n].min
                    THEN THRESHOLDS[n].min ELSE THRESHOLDS[n].max,
      direction |-> IF Val(d.forex[n].price) < THRESHOLDS[n].min
                    THEN "below_min" ELSE "above_max",
      timestamp |-> d.timestamp] :
        n \in {k[1] : k \in BreachedKeys(d, "below_min", "above_max",
                                         "Brent-WTI Spread")}
              \cap Range(FOREX_PAIRS)}
    \cup
    {[market |-> k[1], type |-> "OIL_SPREAD",
      value |-> Round3(Val(d.commodities["Brent Crude Oil"].price)
                       - Val(d.commodities["WTI Crude Oil"].price)),
      threshold |-> IF k[2] = "below_min"
                    THEN THRESHOLDS["Brent-WTI Spread"].min
                    ELSE THRESHOLDS["Brent-WTI Spread"].max,
      direction |-> k[2],
      timestamp |-> d.timestamp] :
        k \in {x \in BreachedKeys(d, "below_min", "above_max",
                                  "Brent-WTI Spread") :
                  x[1] = "Brent-WTI Spread"}}

\* C10: the alert list of a cycle is the complete breach set of its
\* snapshot: an alert for an instrument iff it has a threshold and a present
\* price, whatever its value, strictly outside the band; a spread alert iff
\* both prices are present and the spread is strictly outside its band.
C10_CompleteBreachSet ==
    pc = "acquiring" =>
        /\ Range(alerts) = ExpectedAlerts(data)
        /\ Len(alerts) = Cardinality(ExpectedAlerts(data))

\* The same over the snapshots in which no instrument is quoted at 0.0.
C10_CompleteNonZero ==
    (pc = "acquiring"
     /\ \A n \in Instruments : Get(QuoteOf(data, n), "price") # Some(0)) =>
        /\ Range(alerts) = ExpectedAlerts(data)
        /\ Len(alerts) = Cardinality(ExpectedAlerts(data))

\* ---------------------------------------------------------------- reads
\* The ring after the publishes pub.
RingOf(pub) ==
    LET kept == LastN(pub, MAX_HISTORY)
    IN  [i \in 1..Len(kept) |-> HistoryEntry(kept[i].data, kept[i].alerts)]

\* What a read q returns when pub are the publishes completed so far.
ResponseAfter(q, pub) ==
    CASE q.op = "prices" ->
            IF pub = <<>>
            THEN [status |-> "loading", data |-> None, seen |-> 0]
            ELSE [status |-> "ok", data |-> Some(Last(pub).data),
                  seen |-> Len(pub)]
      [] q.op = "alerts" ->
            LET list == IF pub = <<>> THEN <<>> ELSE Last(pub).alerts
            IN  [status |-> "ok", count |-> Len(list), alerts |-> list,
                 seen |-> Len(pub)]
      [] q.op = "history" ->
            LET recent == PySliceFrom(RingOf(pub), -q.limit)
            IN  [status |-> "ok", count |-> Len(recent),
                 snapshots |-> recent, limit |-> q.limit,
                 stored |-> RingOf(pub)]

\* Every answer of /prices, /alerts and /history is fixed by the request
\* and the publishes completed when it is made: two reads of the same kind
\* with no publish in between return the same.
StoreReadsDetermined ==
    \A r \in Readers :
        rpc[r] = "computed" => resp[r] = ResponseAfter(req[r], published)

\* Two /health answers with no publish in between (here: none has ended
\* at all) are the same.
HealthReadsIdentical ==
    published = <<>> =>
        \A r1, r2 \in Readers :
            (rpc[r1] = "health" /\ rpc[r2] = "health")
                => resp[r1] = resp[r2]

\* C11 as the specification words it: every read, /health among them,
\* returns identical data when repeated with no publish in between.
C11_ReadsIdempotent ==
    /\ StoreReadsDetermined
    /\ HealthReadsIdentical

StoreChanges ==
    \/ latest_data' # latest_data
    \/ active_alerts' # active_alerts
    \/ history' # history

\* A step of a request leaves the store alone, and the store changes only
\* in a step of the poller inside its critical section.
ReadsFrame ==
    /\ (\E r \in Readers : rpc'[r] # rpc[r]) => ~StoreChanges
    /\ StoreChanges =>
          /\ lock = "poller"
          /\ pc \in {"write_data", "write_alerts", "append"}
          /\ pc' # pc

\* C11: no request (/prices, /alerts, /history, /health) modifies the
\* stored latest snapshot, alert list or history, only the poller writes
\* them, and two reads of /prices, /alerts or /history of the same kind
\* (and limit) with no publish in between return identical data. /health
\* is left out of the last part: its answer carries the time of the call.
C11_ReadsFrameAndIdempotent ==
    /\ []StoreReadsDetermined
    /\ [][ReadsFrame]_vars

\* A read has returned, no publish has ended since, and a second read of
\* the same kind and limit has its answer.
C11_Witness ==
    \E r \in Readers :
        /\ rpc[r] = "computed"
        /\ req[r] = last_req
        /\ req[r].op = "history"
        /\ Len(published) >= 1

\* ----------------------------------------------------- a silent source
\* C12: a fetch call is bounded: whenever the poller is inside a fetch the
\* source has not answered, a step of the poller is enabled (the timeout,
\* recorded as an error quote), so the cycle completes and the loop goes
\* on to its sleep and the next cycle.
C12_FetchBounded ==
    pc = "blocked" => ENABLED PollerNextHang

\* --------------------------------------------------------- failed cycles
\* After a publish, /prices answers ok with the last published snapshot.
ReadersSeePublished ==
    \A r \in Readers :
        (rpc[r] = "computed" /\ req[r].op = "prices" /\ published # <<>>)
            => /\ resp[r].status = "ok"
               /\ resp[r].data = Some(Last(published).data)

\* The step in which the poller's fetch raises and the handler takes over.
FailedCycleStep ==
    /\ pc = "fetching"
    /\ pc' = "sleeping"
    /\ failures' = failures + 1

FailedCycleKeepsStore ==
    FailedCycleStep =>
        /\ latest_data' = latest_data
        /\ active_alerts' = active_alerts
        /\ history' = history
        /\ published' = published
        /\ lock' = lock

NeverBackToLoading == TruthyDict(latest_data) => TruthyDict(latest_data')

\* C13: a failed cycle of the server's poll loop leaves the latest
\* snapshot, the alert list and the history exactly as they were (nothing
\* is published in part), readers go on seeing the last published data,
\* and once a snapshot is published /prices never answers loading again.
C13_FailedCycleLeavesStore ==
    /\ []ReadersSeePublished
    /\ [][FailedCycleKeepsStore]_vars
    /\ [][NeverBackToLoading]_vars

\* /prices has answered during the sleep of a cycle that failed after a
\* publish.
C13_Witness ==
    /\ pc = "sleeping"
    /\ fetched = "raised"
    /\ published # <<>>
    /\ \E r \in Readers :
        /\ rpc[r] = "computed"
        /\ req[r].op = "prices"
        /\ resp[r].status = "ok"

\* ------------------------------------------------------- the cycle order
\* The steps of one cycle of the server's loop; a fetch that raises goes
\* straight to the sleep.
CycleSteps ==
    {<<"fetching", "evaluating">>, <<"fetching", "sleeping">>,
     <<"evaluating", "acquiring">>, <<"acquiring", "write_data">>,
     <<"write_data", "write_alerts">>, <<"write_alerts", "append">>,
     <<"append", "release">>, <<"release", "sleeping">>,
     <<"sleeping", "fetching">>}

PollerOrder == pc' # pc => <<pc, pc'>> \in CycleSteps

\* The cycles whose fetch has started and whose sleep has ended.
CyclesEnded == IF pc = "fetching" THEN now ELSE now - 1

PublishesInOrder ==
    \* what is being published was built and evaluated in this cycle
    /\ pc \in {"evaluating", "acquiring", "write_data", "write_alerts",
                "append", "release"} => data.timestamp = now
    /\ pc \in {"acquiring", "write_data", "write_alerts", "append",
                "release"} => alerts = compute_alerts(data)
    \* ... and is what the cycle has published when it goes to sleep
    /\ (pc = "sleeping" /\ fetched = "built") =>
        Last(published) = [data |-> data, alerts |-> alerts]
    \* at most one publish per cycle
    /\ \A i, j \in DOMAIN published :
        i < j => published[i].data.timestamp < published[j].data.timestamp
    /\ Len(published) + failures <= now
    \* one sleep of POLL_INTERVAL after every cycle, failed or not
    /\ slept = POLL_INTERVAL * CyclesEnded

CliCycleSteps ==
    {<<"fetching", "checking">>, <<"fetching", "crashed">>,
     <<"checking", "sleeping">>, <<"sleeping", "fetching">>}

CliCycleOrder ==
    /\ [](cli_pc = "sleeping" =>
            /\ cli_active_alerts = CliCurrentAlerts(cli_data)
            /\ cli_resolved = cli_previous \ cli_active_alerts)
    /\ [][/\ cli_pc' # cli_pc => <<cli_pc, cli_pc'>> \in CliCycleSteps
          /\ cli_pc = "checking" => cli_previous' = cli_active_alerts]_vars

\* --------------------------------------------------------------- the lock
PollerCritical == {"write_data", "write_alerts", "append", "release"}

\* The next step of whoever holds the lock.
HolderStep ==
    \/ PollerWriteData
    \/ PollerWriteAlerts
    \/ PollerAppend
    \/ PollerRelease
    \/ \E r \in Readers : ReaderRead(r) \/ ReaderRelease(r)

LockDiscipline ==
    \* the poller holds the lock exactly while it writes the store
    /\ lock = "poller" <=> pc \in PollerCritical
    /\ pc \in {"fetching", "blocked", "evaluating", "acquiring", "sleeping"}
         => lock # "poller"
    \* a request holds it exactly inside its with block, one at a time
    /\ lock = "reader" <=> \E r \in Readers : HoldsLock(r)
    /\ \A r1, r2 \in Readers : HoldsLock(r1) /\ HoldsLock(r2) => r1 = r2
    \* no deadlock: the holder can always go on to its release
    /\ lock # "free" => ENABLED HolderStep
    /\ ENABLED NextHang
    \* /health needs nothing from the poller or the lock
    /\ \A r \in Readers :
        /\ rpc[r] = "idle" => ENABLED Health(r)
        /\ rpc[r] = "health" => resp[r].status = "ok"

\* C15: the poller holds the lock only while it writes the three fields
\* of one publish, never while it fetches, evaluates or sleeps; every
\* critical section ends with the lock released; no deadlock is
\* reachable; under fair scheduling the lock always becomes free again and
\* every request gets it, also while a fetch never returns or a cycle has
\* failed; /health answers ok in every state.
C15_LockDiscipline ==
    /\ []LockDiscipline
    /\ (lock # "free") ~> (lock = "free")
    /\ \A r \in Readers : (rpc[r] = "waiting") ~> HoldsLock(r)

\* A request that had to wait is inside its with block while the poller
\* waits for a source that never answers, after a failed cycle, and another
\* request has the ok of /health.
C15_Witness ==
    /\ pc = "blocked"
    /\ failures >= 1
    /\ published # <<>>
    /\ \E r \in Readers : rpc[r] = "computed"
    /\ \E r \in Readers : rpc[r] = "health" /\ resp[r].status = "ok"

\* ------------------------------------------------------ published objects
\* No object has changed since it was created.
NeverMutated ==
    /\ \A i \in DOMAIN heap_data : heap_data[i] = born[i].data
    /\ \A i \in DOMAIN heap_alerts : heap_alerts[i] = born[i].alerts
    /\ \A i \in DOMAIN heap_entry :
        EntryAt(i) = HistoryEntry(born[i].data, born[i].alerts)

\* C16: published data is never changed in place: a publish binds
\* latest_data and active_alerts to the objects built in that cycle and
\* appends a new entry, so what a response refers to, and every entry in
\* the ring, is as it was published however many publishes follow.
C16_NeverMutatedInPlace ==
    /\ NeverMutated
    /\ hpc = "sleeping" =>
        /\ ref_latest = hnow
        /\ ref_alerts = hnow
        /\ Last(ref_history) = hnow
    /\ \A r \in Readers : hrpc[r] = "using" => Contents(held[r]) = got[r]
    /\ \A i \in DOMAIN ref_history :
        LET id == ref_history[i]
        IN  EntryAt(id) = HistoryEntry(born[id].data, born[id].alerts)

\* Two publishes, with other alerts, have followed the one whose snapshot
\* a /prices response still refers to, and another response still refers
\* to the alert list of that first publish.
C16_Witness ==
    /\ ref_latest >= 3
    /\ born[1].alerts # born[ref_alerts].alerts
    /\ \E r \in Readers :
        hrpc[r] = "using" /\ held[r] = [op |-> "prices", refs |-> <<1>>]
    /\ \E r \in Readers :
        hrpc[r] = "using" /\ held[r] = [op |-> "alerts", refs |-> <<1>>]

\* ------------------------------------------------- the store at rest
\* C17: whenever the poller is outside its critical section: before the
\* first publish the latest snapshot, the alert list and the history are
\* empty; after it the newest history entry is the latest snapshot with
\* the active alert list, both as last published, and the history holds
\* min(publishes, MAX_HISTORY) entries.
C17_StoreAtRest ==
    lock # "poller" =>
        IF published = <<>>
        THEN /\ latest_data = EmptyDict
             /\ active_alerts = <<>>
             /\ history = <<>>
        ELSE /\ Last(history) = HistoryEntry(latest_data, active_alerts)
             /\ latest_data = Last(published).data
             /\ active_alerts = Last(published).alerts
             /\ Len(history) = Min(Len(published), MAX_HISTORY)

\* The lock is free after more publishes than the ring holds, the last one
\* with an alert and with other alerts than the one before.
C17_Witness ==
    /\ lock = "free"
    /\ Len(published) > MAX_HISTORY
    /\ Len(history) = MAX_HISTORY
    /\ active_alerts # <<>>
    /\ published[Len(published) - 1].alerts # active_alerts

\* --------------------------------------------------- the two evaluators
\* The subject and the direction of a server alert as the command-line
\* monitor spells them in its keys.
CliSubject(market) ==
    IF market = "Brent-WTI Spread" THEN "Brent-WTI" ELSE market

CliWording(direction) ==
    IF direction = "below_min" THEN "BELOW min" ELSE "ABOVE max"

ServerKeys ==
    {<<CliSubject(alerts[i].market), CliWording(alerts[i].direction)>> :
        i \in DOMAIN alerts}

\* C18: on the same snapshot, the (subject, direction) pairs of the alerts
\* compute_alerts lists are the keys check_thresholds puts into its
\* active key set, one alert per key, and each alert names the bound
\* check_thresholds reports as the limit.
C18_EvaluatorsAgree ==
    (pc = "acquiring" /\ cli_pc = "sleeping") =>
        /\ ServerKeys = cli_active_alerts
        /\ Len(alerts) = Cardinality(cli_active_alerts)
        /\ \A i \in DOMAIN alerts :
            LET a == alerts[i]
                t == THRESHOLDS[a.market]
            IN  /\ CliWording(a.direction) = CliDirection(a.value, t)
                /\ a.threshold = CliLimit(a.value, t)

\* Both evaluators have run on a snapshot with a price on a bound of its
\* band, a price outside its band and a spread outside its band.
C18_Witness ==
    /\ pc = "acquiring"
    /\ cli_pc = "sleeping"
    /\ data.forex["EUR/USD"].price = Some(THRESHOLDS["EUR/USD"].min)
    /\ cli_active_alerts =
         {<<"GBP/USD", "ABOVE max">>, <<"Brent-WTI", "ABOVE max">>}
    /\ Len(alerts) = 2

====
